---- MODULE Spec2Model ----
(***************************************************************************)
(* Knight's Tour Encryption System (src/main.cpp).                         *)
(*                                                                         *)
(* The session of main(): a board of a size chosen once, the visited grid, *)
(* the session key, the start position and the hashed passphrase, driven   *)
(* by the menu handlers (generate, load, encrypt, decrypt).  The recursive *)
(* search knightTour is unfolded into an explicit call stack, one step per *)
(* call, per loop iteration and per return.                                *)
(*                                                                         *)
(* Strings are sequences: a message is a sequence of bytes 0..255, a hex   *)
(* text is a sequence of one-character strings.                            *)
(***************************************************************************)
EXTENDS Integers, Sequences, FiniteSets, TLC

VARIABLES
    boardSize,          \* main: int boardSize (read once, line 313)
    board,              \* main: vector<vector<int>> board
    visited,            \* main: vector<vector<bool>> visited
    key,                \* main: vector<int> key, the session key
    startX, startY,     \* main: int startX, startY (Indeterminate until createBoard)
    hashedPassphrase,   \* main: string hashedPassphrase
    stack,              \* active knightTour calls, innermost last
    pc,                 \* where the program is: the menu, inside the search, ...
    message,            \* case '4': string message (plaintext bytes)
    encryptedMessage,   \* case '4'/'5': string encryptedMessage (bytes)
    hexMessage,         \* case '4': the hex text printed; case '5': string hexMessage
    decryptedMessage,   \* case '5': string decryptedMessage (bytes)
    keyFile,            \* case '3': the file named by string filename
    outcome,            \* what the last handler reported on cout
    op,                 \* history: the handler that ran last
    keyBefore,          \* history: the session key when that handler started
    tourOf              \* history: first result of a generation per start cell

vars == <<boardSize, board, visited, key, startX, startY, hashedPassphrase,
          stack, pc, message, encryptedMessage, hexMessage, decryptedMessage,
          keyFile, outcome, op, keyBefore, tourOf>>

(***************************************************************************)
(* Bounds of the model.                                                    *)
(***************************************************************************)
MaxMsgLen == 2          \* longest message typed at the menu
MaxFileLen == 5         \* longest key file, in bytes
MaxKeyLen == 2          \* longest key of the cipher specification
MaxHexLen == 5          \* longest hex text of the codec specification
MaxSessionHexLen == 2   \* longest free-form hex text typed at the menu
MaxCipherMsgLen == 3    \* longest message of the cipher specification
LongMsgLen == 37        \* a message longer than the key of the 6x6 board

\* Board sizes of the session, and of the search specification.  Sizes 5 and
\* 7 have start cells whose exhaustive failing search takes over 10^6 calls;
\* size 5 is kept for the start cells from which a tour exists.
BoardSizes == {1, 2, 3, 6, 8}
TourSizes == {1, 2, 3, 4, 5, 6, 8}
TourStarts(n) ==
    IF n = 5 THEN {c \in (0..4) \X (0..4) : (c[1] + c[2]) % 2 = 0}
    ELSE (0..(n - 1)) \X (0..(n - 1))

MsgBytes == {0, 10, 171, 255}
FileBytes == {255}
KeyVals == {0, 7, 255, 300, -1}
HexChars == {"0", "a", "F", "g", " "}

RECURSIVE SeqsUpTo(_, _)
SeqsUpTo(S, n) ==
    IF n = 0 THEN {<<>>}
    ELSE LET shorter == SeqsUpTo(S, n - 1)
         IN shorter \cup {Append(s, e) : s \in {t \in shorter : Len(t) = n - 1}, e \in S}

Msgs == SeqsUpTo(MsgBytes, MaxMsgLen)

\* messages typed at the menu: the short ones and one long message
LongMsg == [i \in 1..LongMsgLen |-> 171]
SessionMsgs == Msgs \cup {LongMsg}

\* A key file of the data directory: its bytes, or a name that cannot be opened.
NoFile == [exists |-> FALSE, bytes |-> <<>>]
Files == {[exists |-> TRUE, bytes |-> b] : b \in SeqsUpTo(FileBytes, MaxFileLen)}
         \cup {NoFile}

\* Marks an int of main() that was declared and not assigned yet.
Indeterminate == -1

(***************************************************************************)
(* SHA256 of the passphrases of the model: the hex digest, and its first   *)
(* two bytes (hash[0], hash[1]).                                           *)
(***************************************************************************)
Passphrases == {"samplepassphrase", "", "a"}

SHA256(p) ==
    CASE p = "samplepassphrase" ->
           [hex |-> "0be9715c7b0f0a0e476319ecad4c446fa8f157482e9d200240278c710dbaf4d0",
            h0 |-> 11, h1 |-> 233]
      [] p = "" ->
           [hex |-> "e3b0c44298fc1c149afbf4c8996fb92427ae41e4649b934ca495991b7852b855",
            h0 |-> 227, h1 |-> 176]
      [] p = "a" ->
           [hex |-> "ca978112ca1bbdcafac231b39a23dc4da786eff8147c4e72b9807785afee48bb",
            h0 |-> 202, h1 |-> 151]


(***************************************************************************)
(* Board and search.                                                       *)
(***************************************************************************)
\* Knight's move directions, dx[i] and dy[i] of the source at index i + 1.
dx == <<2, 1, -1, -2, -2, -1, 1, 2>>
dy == <<1, 2, 2, 1, -1, -2, -2, -1>>

Size(grid) == Cardinality(DOMAIN grid)

\* vector<vector<T>>(n, vector<T>(n)): value-initialised n x n grid.
Grid(n, v) == [x \in 0..(n - 1) |-> [y \in 0..(n - 1) |-> v]]

\* createBoard: board[i][j] = value++ in row-major order, start from the hash.
createBoard(b, passphrase) ==
    LET h == SHA256(passphrase)
    IN [board |-> [i \in DOMAIN b |-> [j \in DOMAIN b[i] |-> i * Size(b[i]) + j]],
        hashedPassphrase |-> h.hex,
        startX |-> h.h0 % Size(b),
        startY |-> h.h1 % Size(b[0])]

\* isValidMove without the test of the visited grid
isValidMove_ignoresVisited(x, y, vis) ==
    x >= 0 /\ x < Size(vis) /\ y >= 0 /\ y < Size(vis[0])

isValidMove(x, y, vis) ==
    x >= 0 /\ x < Size(vis) /\ y >= 0 /\ y < Size(vis[0]) /\ ~vis[x][y]

getDegree(x, y, vis) ==
    Cardinality({i \in 0..7 : isValidMove(x + dx[i + 1], y + dy[i + 1], vis)})

\* a pair order that breaks ties of the degree by descending direction
PairLess_tiesDescending(p, q) == p[1] < q[1] \/ (p[1] = q[1] /\ p[2] > q[2])

\* operator< of pair<int,int>
PairLess(p, q) == p[1] < q[1] \/ (p[1] = q[1] /\ p[2] < q[2])

\* sort(moves.begin(), moves.end()) on a set of distinct pairs: the pair at
\* position i has i - 1 pairs below it
SortPairs(S) ==
    [i \in 1..Cardinality(S) |->
        CHOOSE p \in S : Cardinality({q \in S : PairLess(q, p)}) = i - 1]

\* lines 110-119: the candidate moves {degree, direction}, sorted
SortedMoves(x, y, vis) ==
    SortPairs({<<getDegree(x + dx[i + 1], y + dy[i + 1], vis), i>> :
                 i \in {j \in 0..7 : isValidMove(x + dx[j + 1], y + dy[j + 1], vis)}})

\* knightTour that pushes board[y][x] instead of board[x][y]
EnterTour_transposed(x, y, movei, b, vis, k, stk) ==
    LET vis1 == [vis EXCEPT ![x][y] = TRUE]
        k1 == Append(k, b[y][x])
    IN IF movei = Size(b) * Size(b[0])
       THEN [visited |-> vis1, key |-> k1,
             stack |-> Append(stk, [x |-> x, y |-> y, movei |-> movei,
                                    moves |-> <<>>, next |-> 1,
                                    entry |-> [visited |-> vis, key |-> k]]),
             pc |-> "ret_true"]
       ELSE [visited |-> vis1, key |-> k1,
             stack |-> Append(stk, [x |-> x, y |-> y, movei |-> movei,
                                    moves |-> SortedMoves(x, y, vis1), next |-> 1,
                                    entry |-> [visited |-> vis, key |-> k]]),
             pc |-> "loop"]

\* knightTour whose last-move test is off by one
EnterTour_offByOne(x, y, movei, b, vis, k, stk) ==
    LET vis1 == [vis EXCEPT ![x][y] = TRUE]
        k1 == Append(k, b[x][y])
    IN IF movei = Size(b) * Size(b[0]) - 1
       THEN [visited |-> vis1, key |-> k1,
             stack |-> Append(stk, [x |-> x, y |-> y, movei |-> movei,
                                    moves |-> <<>>, next |-> 1,
                                    entry |-> [visited |-> vis, key |-> k]]),
             pc |-> "ret_true"]
       ELSE [visited |-> vis1, key |-> k1,
             stack |-> Append(stk, [x |-> x, y |-> y, movei |-> movei,
                                    moves |-> SortedMoves(x, y, vis1), next |-> 1,
                                    entry |-> [visited |-> vis, key |-> k]]),
             pc |-> "loop"]

\* lines 105-119: entry of knightTour(x, y, movei, ...) called with grid vis,
\* key k and callers stk: mark, push the cell, return true on the last move,
\* otherwise build the sorted candidate list and enter the for loop.  The
\* call's frame holds its arguments and locals; its field entry remembers the
\* grid and the key the call was given (a history field, read by no step).
EnterTour(x, y, movei, b, vis, k, stk) ==
    LET vis1 == [vis EXCEPT ![x][y] = TRUE]
        k1 == Append(k, b[x][y])
    IN IF movei = Size(b) * Size(b[0])
       THEN [visited |-> vis1, key |-> k1,
             stack |-> Append(stk, [x |-> x, y |-> y, movei |-> movei,
                                    moves |-> <<>>, next |-> 1,
                                    entry |-> [visited |-> vis, key |-> k]]),
             pc |-> "ret_true"]
       ELSE [visited |-> vis1, key |-> k1,
             stack |-> Append(stk, [x |-> x, y |-> y, movei |-> movei,
                                    moves |-> SortedMoves(x, y, vis1), next |-> 1,
                                    entry |-> [visited |-> vis, key |-> k]]),
             pc |-> "loop"]

(***************************************************************************)
(* Key file, key stream cipher and hex codec.                              *)
(***************************************************************************)
\* The int stored in four bytes of a key file (little-endian, 32 bits).
IntOfBytes(b0, b1, b2, b3) ==
    b0 + 256 * b1 + 65536 * b2 + 16777216 * (IF b3 >= 128 THEN b3 - 256 ELSE b3)

\* lines 165-168: read sizeof(int) bytes at a time until a read fails; a
\* trailing group of fewer than four bytes fails the read and ends the loop.
RECURSIVE ReadInts(_, _)
ReadInts(bytes, k) ==
    IF Len(bytes) >= 4
    THEN ReadInts(SubSeq(bytes, 5, Len(bytes)),
                  Append(k, IntOfBytes(bytes[1], bytes[2], bytes[3], bytes[4])))
    ELSE k

\* loadKeyFromFile: return false when the stream cannot be opened, otherwise
\* clear the key and read the ints of the file.
loadKeyFromFile(file, k) ==
    IF ~file.exists THEN [ok |-> FALSE, key |-> k]
    ELSE [ok |-> TRUE, key |-> ReadInts(file.bytes, <<>>)]

\* The while loop of extendKey never exits when the key is empty and the
\* target length is positive: inserting an empty range leaves the size at 0.
extendKeyDiverges(k, length) == k = <<>> /\ length > 0

RECURSIVE extendLoop(_, _, _)
extendLoop(extendedKey, k, length) ==
    IF Len(extendedKey) < length
    THEN extendLoop(extendedKey \o k, k, length)
    ELSE extendedKey

\* extendKey whose loop runs while the extended key is not longer than the
\* target
extendKey_extraCopy(k, length) == extendLoop(<<>>, k, length + 1)

\* extendKey that cuts the repeated key down to the target length
extendKey_truncated(k, length) == SubSeq(extendLoop(<<>>, k, length), 1, length)

\* extendKey, defined where its loop terminates
extendKey(k, length) == extendLoop(<<>>, k, length)

\* Bitwise exclusive or of two n-bit two's complement values: bit by bit
\* from the low end, the last bit being the sign bit
RECURSIVE XorBits(_, _, _)
XorBits(a, b, n) ==
    LET bit == ((a % 2) + (b % 2)) % 2
    IN IF n = 1 THEN 0 - bit
       ELSE bit + 2 * XorBits(a \div 2, b \div 2, n - 1)

\* int ^ int on 32-bit ints
XorInt(a, b) == XorBits(a, b, 32)

\* the int kept whole instead of being narrowed to a char
ToChar_noTruncate(v) == v

\* conversion of an int to the char appended to a string: its low 8 bits
ToChar(v) == v % 256

\* encryptData whose loop stops one byte early
encryptData_skipsLast(data, encryptedData, k) ==
    encryptedData \o
        [i \in 1..(Len(data) - 1) |-> ToChar(XorInt(data[i], k[((i - 1) % Len(k)) + 1]))]

\* encryptData: encryptedData += data[i] ^ key[i % key.size()], key not empty
encryptData(data, encryptedData, k) ==
    encryptedData \o
        [i \in 1..Len(data) |-> ToChar(XorInt(data[i], k[((i - 1) % Len(k)) + 1]))]

\* decryptData that takes the key one position further than encryptData
decryptData_shifted(encData, decryptedData, k) ==
    decryptedData \o
        [i \in 1..Len(encData) |-> ToChar(XorInt(encData[i], k[(i % Len(k)) + 1]))]

\* decryptData: decryptedData += encryptedData[i] ^ key[i % key.size()]
decryptData(encData, decryptedData, k) ==
    decryptedData \o
        [i \in 1..Len(encData) |-> ToChar(XorInt(encData[i], k[((i - 1) % Len(k)) + 1]))]

LowerDigits == <<"0", "1", "2", "3", "4", "5", "6", "7", "8", "9",
                 "a", "b", "c", "d", "e", "f">>
UpperDigits == <<"0", "1", "2", "3", "4", "5", "6", "7", "8", "9",
                 "A", "B", "C", "D", "E", "F">>

IsHexDigit(c) == \E i \in 1..16 : LowerDigits[i] = c \/ UpperDigits[i] = c
HexVal(c) == (CHOOSE i \in 1..16 : LowerDigits[i] = c \/ UpperDigits[i] = c) - 1

\* bytesToHex without setw(2): a byte below 16 prints as one digit
RECURSIVE bytesToHex_noWidth(_)
bytesToHex_noWidth(input) ==
    IF input = <<>> THEN <<>>
    ELSE LET c == Head(input)
             digits == IF c < 16 THEN <<LowerDigits[c + 1]>>
                       ELSE <<LowerDigits[(c \div 16) + 1], LowerDigits[(c % 16) + 1]>>
         IN digits \o <<" ">> \o bytesToHex_noWidth(Tail(input))

\* bytesToHex: ss << setw(2) << setfill('0') << hex << (int)c << ' '
RECURSIVE bytesToHex(_)
bytesToHex(input) ==
    IF input = <<>> THEN <<>>
    ELSE LET c == Head(input)
             digits == IF c < 16 THEN <<"0", LowerDigits[c + 1]>>
                       ELSE <<LowerDigits[(c \div 16) + 1], LowerDigits[(c % 16) + 1]>>
         IN digits \o <<" ">> \o bytesToHex(Tail(input))

\* first position >= pos of s that holds no space (Len(s) + 1 if none)
RECURSIVE SkipSpaces(_, _)
SkipSpaces(s, pos) ==
    IF pos <= Len(s) /\ s[pos] = " " THEN SkipSpaces(s, pos + 1) ELSE pos

\* first position >= pos of s that holds no hex digit
RECURSIVE SkipDigits(_, _)
SkipDigits(s, pos) ==
    IF pos <= Len(s) /\ IsHexDigit(s[pos]) THEN SkipDigits(s, pos + 1) ELSE pos

\* low 8 bits of the value of the hex digits s[from..to]
RECURSIVE HexNumber(_, _, _)
HexNumber(s, from, to) ==
    IF to < from THEN 0
    ELSE (16 * HexNumber(s, from, to - 1) + HexVal(s[to])) % 256

\* first position >= pos of s that holds no "0"
RECURSIVE SkipZeros(_, _)
SkipZeros(s, pos) ==
    IF pos <= Len(s) /\ s[pos] = "0" THEN SkipZeros(s, pos + 1) ELSE pos

\* the hex digits s[from..to] do not fit an unsigned int (32 bits): more
\* than eight digits after the leading zeros
HexOverflows(s, from, to) == to + 1 - SkipZeros(s, from) > 8

\* lines 395-399: while (hexStream >> hex >> c) encryptedMessage += (char)c.
\* An extraction skips white space, reads the longest run of hex digits and
\* fails (ending the loop) at the end of the text, on a run of no digits, or
\* on a value that does not fit an unsigned int.
RECURSIVE parseHex(_, _, _)
parseHex(s, pos, encData) ==
    LET p == SkipSpaces(s, pos)
        q == SkipDigits(s, p)
    IN IF p > Len(s) \/ q = p \/ HexOverflows(s, p, q - 1)
       THEN encData
       ELSE parseHex(s, q, Append(encData, ToChar(HexNumber(s, p, q - 1))))

(***************************************************************************)
(* The session: the state after the board size was read, and the menu      *)
(* handlers.                                                               *)
(***************************************************************************)
NoTour == [done |-> FALSE, ok |-> FALSE, key |-> <<>>]
NoTours(n) == [c \in (0..(n - 1)) \X (0..(n - 1)) |-> NoTour]

SessionInit(n) ==
    /\ boardSize = n
    /\ board = Grid(n, 0)
    /\ visited = Grid(n, FALSE)
    /\ key = <<>>
    /\ startX = Indeterminate
    /\ startY = Indeterminate
    /\ hashedPassphrase = ""
    /\ stack = <<>>
    /\ pc = "menu"
    /\ message = <<>>
    /\ encryptedMessage = <<>>
    /\ hexMessage = <<>>
    /\ decryptedMessage = <<>>
    /\ keyFile = NoFile
    /\ outcome = "none"
    /\ op = "none"
    /\ keyBefore = <<>>
    /\ tourOf = NoTours(n)

Init == \E n \in BoardSizes : SessionInit(n)

\* case '1' without the reset of the visited grid (line 343)
GenerateKey_noReset(passphrase) ==
    /\ pc = "menu"
    /\ LET cb == createBoard(board, passphrase)
           e == EnterTour(cb.startX, cb.startY, 1, cb.board, visited, <<>>, <<>>)
       IN /\ board' = cb.board
          /\ startX' = cb.startX
          /\ startY' = cb.startY
          /\ hashedPassphrase' = cb.hashedPassphrase
          /\ visited' = e.visited
          /\ key' = e.key
          /\ stack' = e.stack
          /\ pc' = e.pc
    /\ message' = <<>>
    /\ encryptedMessage' = <<>>
    /\ hexMessage' = <<>>
    /\ decryptedMessage' = <<>>
    /\ outcome' = "none"
    /\ op' = "generate"
    /\ keyBefore' = key
    /\ UNCHANGED <<boardSize, keyFile, tourOf>>

\* case '1' up to the call of knightTour: createBoard, the reset of the
\* visited grid and of the key, and the entry of knightTour(startX, startY, 1)
GenerateKey(passphrase) ==
    /\ pc = "menu"
    /\ LET cb == createBoard(board, passphrase)
           vis0 == [x \in DOMAIN visited |-> [y \in 0..(boardSize - 1) |-> FALSE]]
           e == EnterTour(cb.startX, cb.startY, 1, cb.board, vis0, <<>>, <<>>)
       IN /\ board' = cb.board
          /\ startX' = cb.startX
          /\ startY' = cb.startY
          /\ hashedPassphrase' = cb.hashedPassphrase
          /\ visited' = e.visited
          /\ key' = e.key
          /\ stack' = e.stack
          /\ pc' = e.pc
    /\ message' = <<>>
    /\ encryptedMessage' = <<>>
    /\ hexMessage' = <<>>
    /\ decryptedMessage' = <<>>
    /\ outcome' = "none"
    /\ op' = "generate"
    /\ keyBefore' = key
    /\ UNCHANGED <<boardSize, keyFile, tourOf>>

\* lines 121-125: the for loop of the innermost call takes its next
\* candidate and calls knightTour on it
TourCall ==
    /\ pc = "loop"
    /\ LET f == stack[Len(stack)]
       IN /\ f.next <= Len(f.moves)
          /\ LET i == f.moves[f.next][2]
                 callers == [stack EXCEPT ![Len(stack)].next = f.next + 1]
                 e == EnterTour(f.x + dx[i + 1], f.y + dy[i + 1], f.movei + 1,
                                board, visited, key, callers)
             IN /\ visited' = e.visited
                /\ key' = e.key
                /\ stack' = e.stack
                /\ pc' = e.pc
    /\ UNCHANGED <<boardSize, board, startX, startY, hashedPassphrase, message,
                   encryptedMessage, hexMessage, decryptedMessage, keyFile,
                   outcome, op, keyBefore, tourOf>>

\* the backtrack step that unmarks visited[y][x] instead of visited[x][y]
TourBacktrack_transposed ==
    /\ pc = "loop"
    /\ LET f == stack[Len(stack)]
       IN /\ f.next > Len(f.moves)
          /\ visited' = [visited EXCEPT ![f.y][f.x] = FALSE]
          /\ key' = SubSeq(key, 1, Len(key) - 1)
          /\ stack' = SubSeq(stack, 1, Len(stack) - 1)
          /\ pc' = "ret_false"
    /\ UNCHANGED <<boardSize, board, startX, startY, hashedPassphrase, message,
                   encryptedMessage, hexMessage, decryptedMessage, keyFile,
                   outcome, op, keyBefore, tourOf>>

\* the backtrack step that reports a dead end as a finished tour
TourBacktrack_returnsTrue ==
    /\ pc = "loop"
    /\ LET f == stack[Len(stack)]
       IN /\ f.next > Len(f.moves)
          /\ visited' = visited
          /\ key' = key
          /\ stack' = stack
          /\ pc' = "ret_true"
    /\ UNCHANGED <<boardSize, board, startX, startY, hashedPassphrase, message,
                   encryptedMessage, hexMessage, decryptedMessage, keyFile,
                   outcome, op, keyBefore, tourOf>>

\* the backtrack step without visited[x][y] = false
TourBacktrack_keepsMark ==
    /\ pc = "loop"
    /\ LET f == stack[Len(stack)]
       IN /\ f.next > Len(f.moves)
          /\ visited' = visited
          /\ key' = SubSeq(key, 1, Len(key) - 1)
          /\ stack' = SubSeq(stack, 1, Len(stack) - 1)
          /\ pc' = "ret_false"
    /\ UNCHANGED <<boardSize, board, startX, startY, hashedPassphrase, message,
                   encryptedMessage, hexMessage, decryptedMessage, keyFile,
                   outcome, op, keyBefore, tourOf>>

\* the backtrack step without key.pop_back()
TourBacktrack_keepsKey ==
    /\ pc = "loop"
    /\ LET f == stack[Len(stack)]
       IN /\ f.next > Len(f.moves)
          /\ visited' = [visited EXCEPT ![f.x][f.y] = FALSE]
          /\ key' = key
          /\ stack' = SubSeq(stack, 1, Len(stack) - 1)
          /\ pc' = "ret_false"
    /\ UNCHANGED <<boardSize, board, startX, startY, hashedPassphrase, message,
                   encryptedMessage, hexMessage, decryptedMessage, keyFile,
                   outcome, op, keyBefore, tourOf>>

\* lines 130-132: the candidates are exhausted; unmark, pop, return false
TourBacktrack ==
    /\ pc = "loop"
    /\ LET f == stack[Len(stack)]
       IN /\ f.next > Len(f.moves)
          /\ visited' = [visited EXCEPT ![f.x][f.y] = FALSE]
          /\ key' = SubSeq(key, 1, Len(key) - 1)
          /\ stack' = SubSeq(stack, 1, Len(stack) - 1)
          /\ pc' = "ret_false"
    /\ UNCHANGED <<boardSize, board, startX, startY, hashedPassphrase, message,
                   encryptedMessage, hexMessage, decryptedMessage, keyFile,
                   outcome, op, keyBefore, tourOf>>

\* line 125: the recursive call returned false, the for loop goes on
TourResume ==
    /\ pc = "ret_false"
    /\ stack # <<>>
    /\ pc' = "loop"
    /\ UNCHANGED <<boardSize, board, visited, key, startX, startY,
                   hashedPassphrase, stack, message, encryptedMessage,
                   hexMessage, decryptedMessage, keyFile, outcome, op, keyBefore,
                   tourOf>>

\* line 108, lines 125-126: the innermost call returns true, on the last
\* move or because the call it made returned true
TourUnwind ==
    /\ pc = "ret_true"
    /\ stack # <<>>
    /\ stack' = SubSeq(stack, 1, Len(stack) - 1)
    /\ UNCHANGED <<boardSize, board, visited, key, startX, startY,
                   hashedPassphrase, pc, message, encryptedMessage, hexMessage,
                   decryptedMessage, keyFile, outcome, op, keyBefore, tourOf>>

\* lines 346-355: the outermost call returned to case '1'
GenerateDone ==
    /\ pc \in {"ret_true", "ret_false"}
    /\ stack = <<>>
    /\ outcome' = IF pc = "ret_true" THEN "tour_ok" ELSE "tour_failed"
    /\ pc' = "done"
    /\ tourOf' = IF ~tourOf[<<startX, startY>>].done
                 THEN [tourOf EXCEPT ![<<startX, startY>>] =
                          [done |-> TRUE, ok |-> (pc = "ret_true"), key |-> key]]
                 ELSE tourOf
    /\ UNCHANGED <<boardSize, board, visited, key, startX, startY,
                   hashedPassphrase, stack, message, encryptedMessage,
                   hexMessage, decryptedMessage, keyFile, op, keyBefore>>

\* case '3': loadKeyFromFile(filename, key) on a file of the data directory
LoadKey(file) ==
    /\ pc = "menu"
    /\ LET r == loadKeyFromFile(file, key)
       IN /\ key' = r.key
          /\ outcome' = IF r.ok THEN "load_ok" ELSE "load_failed"
    /\ message' = <<>>
    /\ encryptedMessage' = <<>>
    /\ hexMessage' = <<>>
    /\ decryptedMessage' = <<>>
    /\ keyFile' = file
    /\ op' = "load"
    /\ keyBefore' = key
    /\ pc' = "done"
    /\ UNCHANGED <<boardSize, board, visited, startX, startY, hashedPassphrase,
                   stack, tourOf>>

\* case '4': extendKey(key, message.size()), encryptData, bytesToHex.  With
\* an empty key and a non-empty message the program stays in extendKey.
Encrypt(msg) ==
    /\ pc = "menu"
    /\ message' = msg
    /\ decryptedMessage' = <<>>
    /\ op' = "encrypt"
    /\ keyBefore' = key
    /\ IF extendKeyDiverges(key, Len(msg))
       THEN /\ pc' = "extendKey_loop"
            /\ outcome' = "none"
            /\ UNCHANGED <<key, encryptedMessage, hexMessage>>
       ELSE LET k1 == extendKey(key, Len(msg))
                enc == encryptData(msg, <<>>, k1)
            IN /\ key' = k1
               /\ encryptedMessage' = enc
               /\ hexMessage' = bytesToHex(enc)
               /\ outcome' = "encrypted"
               /\ pc' = "done"
    /\ UNCHANGED <<boardSize, board, visited, startX, startY, hashedPassphrase,
                   stack, keyFile, tourOf>>

\* case '5': parse the hex text, decryptData.  With an empty key and a
\* non-empty ciphertext, i % key.size() divides by zero: the program is
\* killed, or goes on with bytes that are no function of the input.
Decrypt(hexText) ==
    /\ pc = "menu"
    /\ hexMessage' = hexText
    /\ message' = <<>>
    /\ op' = "decrypt"
    /\ keyBefore' = key
    /\ LET enc == parseHex(hexText, 1, <<>>)
       IN /\ encryptedMessage' = enc
          /\ IF key = <<>> /\ enc # <<>>
             THEN \/ /\ pc' = "crashed"
                     /\ decryptedMessage' = <<>>
                     /\ outcome' = "none"
                  \/ /\ pc' = "done"
                     /\ decryptedMessage' \in [1..Len(enc) -> MsgBytes]
                     /\ outcome' = "decrypted"
             ELSE /\ pc' = "done"
                  /\ decryptedMessage' = decryptData(enc, <<>>, key)
                  /\ outcome' = "decrypted"
    /\ UNCHANGED <<boardSize, board, visited, key, startX, startY,
                   hashedPassphrase, stack, keyFile, tourOf>>

\* lines 247-257: what generateReport prints: the key's length, the key, the
\* digest and the start position it is given
generateReport(k, hashed, sx, sy) ==
    [keyLength |-> Len(k), keySequence |-> k, hashedPassphrase |-> hashed,
     startX |-> sx, startY |-> sy]

\* case '6': generateReport(key, hashedPassphrase, startX, startY) prints the
\* session's variables as they are and changes none of them.  Before the
\* first generation startX and startY are read uninitialized.
Report ==
    /\ pc = "menu"
    /\ message' = <<>>
    /\ encryptedMessage' = <<>>
    /\ hexMessage' = <<>>
    /\ decryptedMessage' = <<>>
    /\ outcome' = "reported"
    /\ op' = "report"
    /\ keyBefore' = key
    /\ pc' = "done"
    /\ UNCHANGED <<boardSize, board, visited, key, startX, startY,
                   hashedPassphrase, stack, keyFile, tourOf>>

\* break: the handler's block ends, its strings are destroyed, and the loop
\* of main() shows the menu again
Break ==
    /\ pc = "done"
    /\ pc' = "menu"
    /\ message' = <<>>
    /\ encryptedMessage' = <<>>
    /\ hexMessage' = <<>>
    /\ decryptedMessage' = <<>>
    /\ keyFile' = NoFile
    /\ outcome' = "none"
    /\ op' = "none"
    /\ keyBefore' = <<>>
    /\ UNCHANGED <<boardSize, board, visited, key, startX, startY,
                   hashedPassphrase, stack, tourOf>>

HexStrings(n) == SeqsUpTo(HexChars, n)

\* hex texts typed at the menu: ciphertexts as case '4' prints them, and
\* short free-form texts
HexInputs == {bytesToHex(m) : m \in Msgs} \cup HexStrings(MaxSessionHexLen)

TourNext ==
    \/ TourCall
    \/ TourBacktrack
    \/ TourResume
    \/ TourUnwind
    \/ GenerateDone

Next ==
    \/ \E p \in Passphrases : GenerateKey(p)
    \/ TourCall
    \/ TourBacktrack
    \/ TourResume
    \/ TourUnwind
    \/ GenerateDone
    \/ \E f \in Files : LoadKey(f)
    \/ \E m \in SessionMsgs : Encrypt(m)
    \/ \E h \in HexInputs : Decrypt(h)
    \/ Report
    \/ Break

Spec == Init /\ [][Next]_vars

(***************************************************************************)
(* The search alone: knightTour(x, y, 1) called on a fresh grid and an     *)
(* empty key, for every start cell of a board.                             *)
(***************************************************************************)
TourInitOn(sizes) ==
    \E n \in sizes : \E c \in TourStarts(n) :
        LET b == [i \in 0..(n - 1) |-> [j \in 0..(n - 1) |-> i * n + j]]
            e == EnterTour(c[1], c[2], 1, b, Grid(n, FALSE), <<>>, <<>>)
        IN /\ boardSize = n
           /\ board = b
           /\ visited = e.visited
           /\ key = e.key
           /\ stack = e.stack
           /\ pc = e.pc
           /\ startX = c[1]
           /\ startY = c[2]
           /\ hashedPassphrase = ""
           /\ message = <<>>
           /\ encryptedMessage = <<>>
           /\ hexMessage = <<>>
           /\ decryptedMessage = <<>>
           /\ keyFile = NoFile
           /\ outcome = "none"
           /\ op = "generate"
           /\ keyBefore = <<>>
           /\ tourOf = NoTours(n)

TourInit == TourInitOn(TourSizes)

TourSpec == TourInit /\ [][TourNext]_vars

(***************************************************************************)
(* The cipher alone: extendKey, encryptData and decryptData applied to a   *)
(* non-empty key and a message.  keyBefore remembers the key drawn.        *)
(***************************************************************************)
CipherKeys == SeqsUpTo(KeyVals, MaxKeyLen) \ {<<>>}
CipherMsgs == SeqsUpTo(MsgBytes, MaxCipherMsgLen)

CipherInit ==
    \E k \in CipherKeys, m \in CipherMsgs :
        /\ boardSize = 1
        /\ board = Grid(1, 0)
        /\ visited = Grid(1, FALSE)
        /\ key = k
        /\ startX = Indeterminate
        /\ startY = Indeterminate
        /\ hashedPassphrase = ""
        /\ stack = <<>>
        /\ pc = "cipher"
        /\ message = m
        /\ encryptedMessage = <<>>
        /\ hexMessage = <<>>
        /\ decryptedMessage = <<>>
        /\ keyFile = NoFile
        /\ outcome = "none"
        /\ op = "none"
        /\ keyBefore = k
        /\ tourOf = NoTours(1)

\* extendKey(key, message.size())
CipherExtend ==
    /\ pc = "cipher"
    /\ key' = extendKey(key, Len(message))
    /\ pc' = "extended"
    /\ UNCHANGED <<boardSize, board, visited, startX, startY, hashedPassphrase,
                   stack, message, encryptedMessage, hexMessage,
                   decryptedMessage, keyFile, outcome, op, keyBefore, tourOf>>

\* string encryptedMessage; encryptData(message, encryptedMessage, key)
CipherEncrypt ==
    /\ pc \in {"cipher", "extended"}
    /\ encryptedMessage' = encryptData(message, <<>>, key)
    /\ pc' = "encrypted"
    /\ UNCHANGED <<boardSize, board, visited, key, startX, startY,
                   hashedPassphrase, stack, message, hexMessage,
                   decryptedMessage, keyFile, outcome, op, keyBefore, tourOf>>

\* string decryptedMessage; decryptData(encryptedMessage, decryptedMessage, key)
CipherDecrypt ==
    /\ pc = "encrypted"
    /\ decryptedMessage' = decryptData(encryptedMessage, <<>>, key)
    /\ pc' = "decrypted"
    /\ UNCHANGED <<boardSize, board, visited, key, startX, startY,
                   hashedPassphrase, stack, message, encryptedMessage,
                   hexMessage, keyFile, outcome, op, keyBefore, tourOf>>

CipherNext ==
    \/ CipherExtend
    \/ CipherEncrypt
    \/ CipherDecrypt

CipherSpec == CipherInit /\ [][CipherNext]_vars

(***************************************************************************)
(* The codec alone: bytesToHex applied to bytes and the hex parser of case *)
(* '5' applied to its output, or to a hex text.                            *)
(***************************************************************************)
CodecInit ==
    /\ boardSize = 1
    /\ board = Grid(1, 0)
    /\ visited = Grid(1, FALSE)
    /\ key = <<>>
    /\ startX = Indeterminate
    /\ startY = Indeterminate
    /\ hashedPassphrase = ""
    /\ stack = <<>>
    /\ encryptedMessage = <<>>
    /\ decryptedMessage = <<>>
    /\ keyFile = NoFile
    /\ outcome = "none"
    /\ op = "none"
    /\ keyBefore = <<>>
    /\ tourOf = NoTours(1)
    /\ \/ /\ pc = "bytes"
          /\ message \in Msgs
          /\ hexMessage = <<>>
       \/ /\ pc = "text"
          /\ message = <<>>
          /\ hexMessage \in HexStrings(MaxHexLen)

\* bytesToHex(message)
CodecEncode ==
    /\ pc = "bytes"
    /\ hexMessage' = bytesToHex(message)
    /\ pc' = "encoded"
    /\ UNCHANGED <<boardSize, board, visited, key, startX, startY,
                   hashedPassphrase, stack, message, encryptedMessage,
                   decryptedMessage, keyFile, outcome, op, keyBefore, tourOf>>

\* lines 394-399 on hexMessage
CodecDecode ==
    /\ pc \in {"encoded", "text"}
    /\ encryptedMessage' = parseHex(hexMessage, 1, <<>>)
    /\ pc' = IF pc = "encoded" THEN "roundtrip" ELSE "decoded"
    /\ UNCHANGED <<boardSize, board, visited, key, startX, startY,
                   hashedPassphrase, stack, message, hexMessage,
                   decryptedMessage, keyFile, outcome, op, keyBefore, tourOf>>

CodecNext ==
    \/ CodecEncode
    \/ CodecDecode

CodecSpec == CodecInit /\ [][CodecNext]_vars

\* The search on the boards of size 1, 2 and 3, and on a board where tours
\* exist, with the scheduling of a sequential program: a step that can be
\* taken is taken.
BoundarySizes == {1, 2, 3, 6}
BoundaryInit == TourInitOn(BoundarySizes)
BoundarySpec == BoundaryInit /\ [][TourNext]_vars /\ WF_vars(TourNext)

(***************************************************************************)
(* Properties.                                                             *)
(***************************************************************************)

\* C1: decrypting the encryption of a message with the same non-empty key
\* gives the message back, also when the key was first extended to the
\* length of the message.
RoundTrip == pc = "decrypted" => decryptedMessage = message

RoundTripWitness ==
    /\ pc = "decrypted"
    /\ Len(message) = 2
    /\ Len(keyBefore) = 1
    /\ Len(key) = 2
    /\ encryptedMessage # message
    /\ decryptedMessage = message

\* C2: when the search started on a fresh grid with an empty key returns
\* success, the key has length N*N and holds every cell identifier
\* 0..N*N-1 (so each exactly once).
TourIsPermutation ==
    (pc = "ret_true" \/ outcome = "tour_ok") =>
        /\ Len(key) = boardSize * boardSize
        /\ {key[i] : i \in 1..Len(key)} = 0..(boardSize * boardSize - 1)

TourIsPermutationWitness ==
    /\ outcome = "tour_ok"
    /\ boardSize = 6
    /\ startX = 3
    /\ startY = 3
    /\ Len(key) = 36

\* C3: on the boards of size 1, 2 and 3 the search ends, from every start
\* cell: with success and key <<0>> for size 1, with failure for sizes 2
\* and 3.
BoundaryBoards ==
    <>(/\ pc = "done"
       /\ (boardSize = 1 => (outcome = "tour_ok" /\ key = <<0>>))
       /\ (boardSize \in {2, 3} => outcome = "tour_failed"))

BoundaryBoardsWitness ==
    /\ pc = "done"
    /\ boardSize = 3
    /\ startX = 0
    /\ startY = 0
    /\ outcome = "tour_failed"

\* C4 as stated: after a failed generation the session key is the key the
\* session had before the generation.
FailedGenerationKeepsKey ==
    (op = "generate" /\ outcome = "tour_failed") => key = keyBefore

\* C4: after a failed generation the session key is empty, whatever it was
\* before the generation.
FailedGenerationClearsKey ==
    (op = "generate" /\ outcome = "tour_failed") => key = <<>>

FailedGenerationClearsKeyWitness ==
    /\ op = "generate"
    /\ outcome = "tour_failed"
    /\ boardSize = 3
    /\ keyBefore # <<>>
    /\ key = <<>>

\* C5: the encrypt operation leaves the session key as it was before the
\* operation, for every message, the empty one included.
EncryptKeepsKey == (op = "encrypt" /\ pc = "done") => key = keyBefore

\* C6: a cipher operation (encrypt with its key extension, decrypt) started
\* with an empty session key ends, and reports the EmptyKey error.
EmptyKeyReported ==
    (op \in {"encrypt", "decrypt"} /\ keyBefore = <<>>) =>
        (pc = "done" /\ outcome = "EmptyKey")

\* C7: loading a key file whose length is not a multiple of 4 bytes reports
\* failure and leaves the session key unchanged.
PartialFileRejected ==
    (op = "load" /\ keyFile.exists /\ Len(keyFile.bytes) % 4 # 0) =>
        (outcome = "load_failed" /\ key = keyBefore)

\* C8: a generation gives the result (success or failure, and the key) that
\* the first generation of the session from the same start cell gave,
\* whatever the session did in between.
GenerationDeterministic ==
    (op = "generate" /\ pc = "done") =>
        LET t == tourOf[<<startX, startY>>]
        IN /\ t.done
           /\ t.ok = (outcome = "tour_ok")
           /\ t.key = key

\* a generation from the start cell of the generation that made the key the
\* session already had
GenerationDeterministicWitness ==
    /\ op = "generate"
    /\ pc = "done"
    /\ outcome = "tour_ok"
    /\ boardSize = 6
    /\ keyBefore = key

\* a hex text with a character that is neither a hex digit nor a space, or
\* with a run of an odd number of hex digits
Malformed(s) ==
    \/ \E i \in 1..Len(s) : ~IsHexDigit(s[i]) /\ s[i] # " "
    \/ \E i \in 1..Len(s) :
          /\ IsHexDigit(s[i])
          /\ (i = 1 \/ ~IsHexDigit(s[i - 1]))
          /\ (SkipDigits(s, i) - i) % 2 = 1

\* C9: decrypting a malformed hex text ends with the FormatError outcome
\* and no decoded bytes.
MalformedHexRejected ==
    (op = "decrypt" /\ Malformed(hexMessage)) =>
        (pc = "done" /\ outcome = "FormatError" /\ encryptedMessage = <<>>)

\* a hex text of groups of exactly two hex digits separated by spaces
WellFormed(s) ==
    /\ \A i \in 1..Len(s) : IsHexDigit(s[i]) \/ s[i] = " "
    /\ \A i \in 1..Len(s) :
          (IsHexDigit(s[i]) /\ (i = 1 \/ ~IsHexDigit(s[i - 1]))) =>
              SkipDigits(s, i) - i = 2

Lower(c) ==
    IF \E i \in 1..16 : UpperDigits[i] = c
    THEN LowerDigits[CHOOSE i \in 1..16 : UpperDigits[i] = c]
    ELSE c

\* the normal form of a well-formed hex text: lower-case digits, one space
\* after each group and none elsewhere
RECURSIVE NormalizeFrom(_, _)
NormalizeFrom(s, i) ==
    IF i > Len(s) THEN <<>>
    ELSE IF s[i] = " " THEN NormalizeFrom(s, i + 1)
    ELSE <<Lower(s[i])>>
         \o (IF i = Len(s) \/ s[i + 1] = " " THEN <<" ">> ELSE <<>>)
         \o NormalizeFrom(s, i + 1)

Normalize(s) == NormalizeFrom(s, 1)

\* C10: the hex parser of the decrypt operation gives back the bytes that
\* bytesToHex encoded, and bytesToHex of the bytes parsed from a
\* well-formed hex text is the normal form of that text.
HexRoundTrip ==
    /\ pc = "roundtrip" => encryptedMessage = message
    /\ (pc = "decoded" /\ WellFormed(hexMessage)) =>
           bytesToHex(encryptedMessage) = Normalize(hexMessage)

HexRoundTripWitness ==
    /\ pc = "decoded"
    /\ WellFormed(hexMessage)
    /\ Len(encryptedMessage) = 2
    /\ hexMessage # bytesToHex(encryptedMessage)

(***************************************************************************)
(* C11.  Whenever the report is produced while the last generation of the  *)
(* session completed with a tour, the reported key is the TourKey of the   *)
(* tour started at the reported position: its length is N*N and its first  *)
(* element is startX*N + startY, and the reported digest and position are  *)
(* those of one passphrase.                                                *)
(***************************************************************************)
LastGenerationOk ==
    /\ startX # Indeterminate
    /\ tourOf[<<startX, startY>>].done
    /\ tourOf[<<startX, startY>>].ok

ReportConsistent ==
    (op = "report" /\ pc = "done" /\ LastGenerationOk) =>
        LET r == generateReport(key, hashedPassphrase, startX, startY)
        IN /\ r.keySequence = tourOf[<<r.startX, r.startY>>].key
           /\ r.keyLength = boardSize * boardSize
           /\ r.keySequence[1] = r.startX * boardSize + r.startY
           /\ \E p \in Passphrases :
                 LET cb == createBoard(board, p)
                 IN /\ r.hashedPassphrase = cb.hashedPassphrase
                    /\ r.startX = cb.startX
                    /\ r.startY = cb.startY

\* C12: the ciphertext is as long as the plaintext and the decrypted text
\* is as long as the ciphertext, for every message and non-empty key drawn
\* (both outputs start empty).
LengthPreserved ==
    /\ pc \in {"encrypted", "decrypted"} => Len(encryptedMessage) = Len(message)
    /\ pc = "decrypted" => Len(decryptedMessage) = Len(encryptedMessage)

LengthPreservedWitness ==
    /\ pc = "decrypted"
    /\ Len(message) = MaxCipherMsgLen
    /\ Len(keyBefore) = 1
    /\ Len(encryptedMessage) = MaxCipherMsgLen
    /\ Len(decryptedMessage) = MaxCipherMsgLen

\* The exclusive or of two bytes, from their binary digits
Pow2 == <<1, 2, 4, 8, 16, 32, 64, 128>>
ByteBit(a, j) == (a \div Pow2[j]) % 2
ByteXor(a, b) ==
    LET d(j) == IF ByteBit(a, j) # ByteBit(b, j) THEN Pow2[j] ELSE 0
    IN d(1) + d(2) + d(3) + d(4) + d(5) + d(6) + d(7) + d(8)

\* C13: output byte i of encryptData and of decryptData is input byte i
\* XOR (key[i mod len(key)] mod 256): only the low 8 bits of a key value
\* take part, also for key values of 256 and more and for negative ones.
LowByteXor ==
    /\ pc \in {"encrypted", "decrypted"} =>
          \A i \in 1..Len(message) :
              encryptedMessage[i] =
                  ByteXor(message[i], key[((i - 1) % Len(key)) + 1] % 256)
    /\ pc = "decrypted" =>
          \A i \in 1..Len(encryptedMessage) :
              decryptedMessage[i] =
                  ByteXor(encryptedMessage[i], key[((i - 1) % Len(key)) + 1] % 256)

LowByteXorWitness ==
    /\ pc = "decrypted"
    /\ key = <<300>>
    /\ message = <<171, 10>>
    /\ encryptedMessage = <<135, 38>>
    /\ decryptedMessage = message

\* The key repeated: element i of count copies of k
Repeated(k, count) == [i \in 1..(count * Len(k)) |-> k[((i - 1) % Len(k)) + 1]]
SmallestCount(L, T) ==
    CHOOSE c \in 0..T : c * L >= T /\ \A j \in 0..(c - 1) : j * L < T

\* C18: for a non-empty key of length L and a target T >= 0, extendKey
\* replaces the key by the original key repeated c whole times, c the
\* smallest integer with c*L >= T: the result is at least T long, a
\* multiple of L long, and never ends in a partial copy.
ExtendWholeCopies ==
    pc = "extended" =>
        LET L == Len(keyBefore)
            T == Len(message)
        IN /\ key = Repeated(keyBefore, SmallestCount(L, T))
           /\ Len(key) >= T
           /\ Len(key) % L = 0

ExtendWholeCopiesWitness ==
    /\ pc = "extended"
    /\ Len(keyBefore) = 2
    /\ Len(message) = 3
    /\ keyBefore[1] # keyBefore[2]
    /\ key = keyBefore \o keyBefore

\* The number of true cells of the visited grid, the move index of the
\* innermost active call (0 when no call is active), and the states of a
\* search in which a call is active or has just returned.
TrueCells ==
    Cardinality({c \in (0..(boardSize - 1)) \X (0..(boardSize - 1)) :
                   visited[c[1]][c[2]]})
Depth == IF stack = <<>> THEN 0 ELSE stack[Len(stack)].movei
InSearch == pc \in {"loop", "ret_false", "ret_true"}

\* C14 as stated: in every state of a search started on an all-false grid
\* with an empty key, after a call's entry marking, the number of true
\* cells equals the move index of the innermost active call and the length
\* of the key.
CountEqualsDepth ==
    (InSearch /\ stack # <<>>) => (TrueCells = Depth /\ TrueCells = Len(key))

\* C14: the number of true cells equals the length of the key in every state
\* of the search, and equals the move index of the innermost active call as
\* long as no call has returned true; once the call of the last move
\* returns true, grid and key stay at N*N while the callers return.
CountEqualsDepthUntilSuccess ==
    /\ InSearch => TrueCells = Len(key)
    /\ (pc \in {"loop", "ret_false"}
          \/ (pc = "ret_true" /\ Depth = boardSize * boardSize))
         => TrueCells = Depth
    /\ pc = "ret_true" => TrueCells = boardSize * boardSize

CountEqualsDepthUntilSuccessWitness ==
    /\ pc = "ret_false"
    /\ boardSize = 5
    /\ Depth = 20
    /\ TrueCells = 20
    /\ Len(key) = 20

\* Knight's graph of the n x n board, and the existence of a knight path
\* that starts with the cells of seen, stands on c and goes on to visit every
\* cell exactly once (exhaustive, in no particular order).
KnightSteps ==
    {d \in {-2, -1, 1, 2} \X {-2, -1, 1, 2} : d[1] * d[1] + d[2] * d[2] = 5}
KnightNeighbours(n, c) ==
    {t \in (0..(n - 1)) \X (0..(n - 1)) :
        \E d \in KnightSteps : t = <<c[1] + d[1], c[2] + d[2]>>}
RECURSIVE PathFrom(_, _, _)
PathFrom(n, c, seen) ==
    \/ Cardinality(seen) = n * n
    \/ \E t \in KnightNeighbours(n, c) \ seen : PathFrom(n, t, seen \cup {t})

\* The cell with identifier v, and a key that is a Hamiltonian knight path
\* of the board from the start cell
CellOf(v) == <<v \div boardSize, v % boardSize>>
IsHamiltonianPath(k) ==
    /\ Len(k) = boardSize * boardSize
    /\ {k[i] : i \in 1..Len(k)} = 0..(boardSize * boardSize - 1)
    /\ CellOf(k[1]) = <<startX, startY>>
    /\ \A i \in 1..(Len(k) - 1) :
          CellOf(k[i + 1]) \in KnightNeighbours(boardSize, CellOf(k[i]))

\* C15: the search is complete: it returns failure exactly when no
\* Hamiltonian knight path from the start cell exists.  A failure is
\* compared with the exhaustive search of the knight's graph, a success
\* comes with the key as the path.
SearchComplete ==
    pc = "done" =>
        /\ outcome \in {"tour_ok", "tour_failed"}
        /\ outcome = "tour_failed" =>
              ~PathFrom(boardSize, <<startX, startY>>, {<<startX, startY>>})
        /\ outcome = "tour_ok" => IsHamiltonianPath(key)

SearchCompleteWitness ==
    /\ pc = "done"
    /\ outcome = "tour_failed"
    /\ boardSize = 4
    /\ <<startX, startY>> = <<1, 2>>
    /\ key = <<>>

\* The cell reached from the cell of frame f in direction i, the directions
\* of f that lead to an unvisited cell of the board, and the number of
\* unvisited cells one knight move away from a cell, on the current grid
Target(f, i) == <<f.x + dx[i + 1], f.y + dy[i + 1]>>
Unvisited ==
    {c \in (0..(boardSize - 1)) \X (0..(boardSize - 1)) : ~visited[c[1]][c[2]]}
Candidates(f) == {i \in 0..7 : Target(f, i) \in Unvisited}
OnwardMoves(c) == Cardinality(KnightNeighbours(boardSize, c) \cap Unvisited)

\* Whenever a call is at its for loop (on entry, and again after each failed
\* candidate), its list holds exactly the valid candidates, each with its
\* degree on the grid as it is then (the call's cell marked, the candidate
\* not), in ascending degree and, among equal degrees, ascending direction.
MovesInOrder ==
    pc = "loop" =>
        LET f == stack[Len(stack)]
        IN /\ {f.moves[j][2] : j \in 1..Len(f.moves)} = Candidates(f)
           /\ Len(f.moves) = Cardinality(Candidates(f))
           /\ \A j \in 1..Len(f.moves) :
                 f.moves[j][1] = OnwardMoves(Target(f, f.moves[j][2]))
           /\ \A j \in 1..(Len(f.moves) - 1) :
                 \/ f.moves[j][1] < f.moves[j + 1][1]
                 \/ /\ f.moves[j][1] = f.moves[j + 1][1]
                    /\ f.moves[j][2] < f.moves[j + 1][2]

\* A call is made on the next candidate of the list, starting with the
\* first; once a call has returned true no further call is made.
CallsInOrder ==
    /\ (pc = "loop" /\ Len(stack') = Len(stack) + 1) =>
          LET f == stack[Len(stack)]
              g == stack'[Len(stack')]
          IN /\ <<g.x, g.y>> = Target(f, f.moves[f.next][2])
             /\ g.next = 1
             /\ stack'[Len(stack)].next = f.next + 1
    /\ pc = "ret_true" => (pc' # "loop" /\ Len(stack') <= Len(stack))
    /\ (pc = "ret_false" /\ stack # <<>>) => (pc' = "loop" /\ stack' = stack)

\* C16: candidates are tried in ascending degree, ties by ascending
\* direction index, the degree being counted with the current cell marked
\* and the candidate not yet marked; the first candidate whose call
\* succeeds ends the search and no later candidate is tried.
WarnsdorffOrder == []MovesInOrder /\ [][CallsInOrder]_vars

WarnsdorffOrderWitness ==
    /\ pc = "loop"
    /\ boardSize = 5
    /\ LET f == stack[Len(stack)]
       IN /\ f.next = 3
          /\ Len(f.moves) >= 3
          /\ f.moves[1][1] = f.moves[2][1]
          /\ f.moves[2][1] < f.moves[3][1]

\* A call that returns false leaves the grid and the key as it was given them
ReturnFalseRestores ==
    (pc = "loop" /\ pc' = "ret_false") =>
        LET f == stack[Len(stack)]
        IN /\ visited' = f.entry.visited
           /\ key' = f.entry.key

\* C17: a failed call restores its caller's state: when a call returns
\* false, the visited grid and the key are exactly as they were immediately
\* before that call; so after a failed top-level search started from an
\* all-false grid and an empty key, the grid is all false and the key empty.
FailedCallRestores ==
    /\ [][ReturnFalseRestores]_vars
    /\ []((pc \in {"ret_false", "done"} /\ stack = <<>> /\ outcome # "tour_ok") =>
            (visited = Grid(boardSize, FALSE) /\ key = <<>>))

FailedCallRestoresWitness ==
    /\ pc = "ret_false"
    /\ boardSize = 4
    /\ Len(stack) = 12
    /\ Len(key) = 12
    /\ stack[12].next = 2
    /\ stack[12].entry.key = SubSeq(key, 1, 11)

\* Absolute value, and two cell identifiers one knight move apart: their
\* rows and columns differ by 1 and 2 or by 2 and 1
Abs(v) == IF v < 0 THEN 0 - v ELSE v
KnightApart(a, b) ==
    LET dr == Abs((a \div boardSize) - (b \div boardSize))
        dc == Abs((a % boardSize) - (b % boardSize))
    IN (dr = 1 /\ dc = 2) \/ (dr = 2 /\ dc = 1)

\* C19: in every successful tour the first key element is
\* startX*N + startY, and every two consecutive key elements are cells of
\* the board one knight move apart.
TourIsKnightWalk ==
    (pc = "ret_true" \/ outcome = "tour_ok") =>
        /\ key[1] = startX * boardSize + startY
        /\ \A i \in 1..Len(key) : key[i] \in 0..(boardSize * boardSize - 1)
        /\ \A i \in 1..(Len(key) - 1) : KnightApart(key[i], key[i + 1])

TourIsKnightWalkWitness ==
    /\ pc = "done"
    /\ outcome = "tour_ok"
    /\ boardSize = 8
    /\ <<startX, startY>> = <<3, 1>>
    /\ key[1] = 25
    /\ Len(key) = 64
    /\ KnightApart(key[63], key[64])

\* The TourKey of the last generation, and a session key that is that
\* TourKey repeated a whole number (at least 1) of times
TourKey == tourOf[<<startX, startY>>].key
KeyIsWholeCopies ==
    /\ LastGenerationOk
    /\ Len(key) >= Len(TourKey)
    /\ Len(key) % Len(TourKey) = 0
    /\ \A i \in 1..Len(key) : key[i] = TourKey[((i - 1) % Len(TourKey)) + 1]

\* a successful generation leaves the TourKey as the session key, and an
\* encryption or decryption done with whole copies gives the bytes the
\* TourKey gives
WholeCopiesGiveSameBytes ==
    /\ (op = "generate" /\ pc = "done" /\ outcome = "tour_ok") =>
          (KeyIsWholeCopies /\ key = TourKey)
    /\ (op = "encrypt" /\ pc = "done" /\ message # <<>> /\ KeyIsWholeCopies) =>
          encryptedMessage = encryptData(message, <<>>, extendKey(TourKey, Len(message)))
    /\ (op = "decrypt" /\ pc = "done" /\ KeyIsWholeCopies) =>
          decryptedMessage = decryptData(encryptedMessage, <<>>, TourKey)

\* an encryption of a non-empty message, a decryption, and the return to
\* the menu keep the session key a whole number of copies, and end
EncryptDecryptKeepCopies ==
    (/\ KeyIsWholeCopies
     /\ \/ pc = "done"
        \/ pc = "menu" /\ op' = "encrypt" /\ message' # <<>>
        \/ pc = "menu" /\ op' = "decrypt")
    => (KeyIsWholeCopies' /\ pc' \in {"menu", "done"})

\* C20: after a successful generation and any sequence of encryptions of
\* non-empty messages and of decryptions, with no load and no generation in
\* between, the session key is the generated TourKey repeated a whole number
\* (at least 1) of times, so every later encryption or decryption gives the
\* bytes the original TourKey gives.
KeyStaysWholeCopies ==
    []WholeCopiesGiveSameBytes /\ [][EncryptDecryptKeepCopies]_vars

KeyStaysWholeCopiesWitness ==
    /\ op = "decrypt"
    /\ pc = "done"
    /\ boardSize = 6
    /\ KeyIsWholeCopies
    /\ Len(key) = 72
    /\ Len(encryptedMessage) = 2
    /\ decryptedMessage = decryptData(encryptedMessage, <<>>, TourKey)
====
